---- MODULE Spec2Model ----
(***************************************************************************)
(* A model of myoracle.py: the multi-line statement buffer                 *)
(* (MultilineReadline), the statement classifier (SqlQuery) with its date  *)
(* macro rewriter, and the execution driver (handle_single_query,          *)
(* run_ui_query_loop, run_it).                                             *)
(*                                                                         *)
(* A Python string is modelled as a sequence of one-character strings, so  *)
(* that find, strip, startswith, endswith and slicing are computed         *)
(* character by character as str does.                                     *)
(***************************************************************************)
EXTENDS Integers, Sequences, FiniteSets, TLC

VARIABLES
    execute_query,      \* options.execute_query ('' in the interactive run)
    pc,                 \* position of the program
    statement_buffer,   \* MultilineReadline.statement_buffer
    query_statement,    \* the text handed to SqlQuery(...)
    query_object,       \* the SqlQuery built from query_statement
    pre_buffer,         \* statement_buffer as it was when query_statement was extracted from it
    submitted,          \* what handle_single_query passed to db.query for query_object
    output,             \* what handle_single_query printed for query_object
    dumped,             \* whether dump_buffer ran after handle_single_query
    exit_reason,        \* why the interactive loop was left
    rewritten,          \* result of running date_macro_substitution on a built SqlQuery's text
    db,                 \* the SimpleDB object of run_it
    readline_history,   \* the ReadlineHistoryFile of run_ui_query_loop
    prompt,             \* the prompt raw_input showed in the last get_query, if it was called
    num_fetched,        \* SimpleDB.query's counter
    results,            \* the rows SimpleDB.query has collected; the rows a view formats
    header              \* the column names a view formats

\* the variables of the interactive session around the statement buffer
session_vars == <<db, readline_history, prompt>>

\* the variables of SimpleDB.query and of the views
result_vars == <<num_fetched, results, header>>

vars == <<execute_query, pc, statement_buffer, query_statement, query_object,
          pre_buffer, submitted, output, dumped, exit_reason, rewritten,
          db, readline_history, prompt, num_fetched, results, header>>

----------------------------------------------------------------------------
(* Bounds of the model *)

\* number of pieces a typed line is made of, at most
MaxLinePieces == 2
\* number of characters the pending buffer may hold before further lines are withheld
MaxBuffer == 5
\* number of characters of a line typed to the statement buffer alone, at most
MaxLineChars == 3
\* number of characters that buffer may hold before further lines are withheld
MaxPending == 3
\* number of pieces a statement handed directly to SqlQuery is made of, at most
MaxStmtPieces == 3
\* number of rows of a result set handed to a view, at most
MaxRows == 2
\* the largest batch size and the largest maximum a SimpleDB is configured with
MaxFetchsize == 4
\* number of rows a statement matches, at most
MaxMatching == 6

----------------------------------------------------------------------------
(* str primitives *)

\* the characters str.strip removes and \s matches (the vertical tab left out)
Whitespace == {" ", "\t", "\n", "\r", "\f"}

RECURSIVE LStrip(_)
LStrip(s) ==
    IF s = <<>> THEN s
    ELSE IF Head(s) \in Whitespace THEN LStrip(Tail(s)) ELSE s

RECURSIVE RStrip(_)
RStrip(s) ==
    IF s = <<>> THEN s
    ELSE IF s[Len(s)] \in Whitespace THEN RStrip(SubSeq(s, 1, Len(s) - 1)) ELSE s

Strip(s) == RStrip(LStrip(s))

UpperChars ==
    <<"A","B","C","D","E","F","G","H","I","J","K","L","M",
      "N","O","P","Q","R","S","T","U","V","W","X","Y","Z">>

LowerChars ==
    <<"a","b","c","d","e","f","g","h","i","j","k","l","m",
      "n","o","p","q","r","s","t","u","v","w","x","y","z">>

\* str.lower on one character
lower_map == [i \in 1..Len(UpperChars) |-> LowerChars[i]]

upper_index == [c \in {UpperChars[i] : i \in 1..Len(UpperChars)} |->
                   CHOOSE i \in 1..Len(UpperChars) : UpperChars[i] = c]

LowerChar(c) == IF c \in DOMAIN upper_index THEN lower_map[upper_index[c]] ELSE c

Lower(s) == [i \in 1..Len(s) |-> LowerChar(s[i])]

StartsWith(s, t) == Len(t) <= Len(s) /\ SubSeq(s, 1, Len(t)) = t

EndsWith(s, t) == Len(t) <= Len(s) /\ SubSeq(s, Len(s) - Len(t) + 1, Len(s)) = t

\* s[a:b] for 0 <= a, b
Slice(s, a, b) == SubSeq(s, a + 1, IF b > Len(s) THEN Len(s) ELSE b)

\* str.find: the lowest 0-based index at which t occurs in s, or -1
Find(s, t) ==
    LET hits == {i \in 0..(Len(s) - Len(t)) : SubSeq(s, i + 1, i + Len(t)) = t}
    IN  IF hits = {} THEN -1
        ELSE CHOOSE i \in hits : \A j \in hits : i <= j

\* c * n
RECURSIVE Repeat(_, _)
Repeat(c, n) == IF n <= 0 THEN <<>> ELSE <<c>> \o Repeat(c, n - 1)

\* sep.join(parts)
RECURSIVE Join(_, _)
Join(sep, parts) ==
    IF parts = <<>> THEN <<>>
    ELSE IF Len(parts) = 1 THEN parts[1]
    ELSE parts[1] \o sep \o Join(sep, Tail(parts))

\* '%d' % n and str(n) for n >= 0
RECURSIVE Decimal(_)
Decimal(n) ==
    IF n < 10 THEN << <<"0","1","2","3","4","5","6","7","8","9">>[n + 1] >>
    ELSE Decimal(n \div 10) \o Decimal(n % 10)

\* ('%' + str(width) + 's') % s  and  ('%-' + str(width) + 's') % s
RightJustify(s, width) == Repeat(" ", width - Len(s)) \o s

LeftJustify(s, width) == s \o Repeat(" ", width - Len(s))

----------------------------------------------------------------------------
(* SimpleDB: the connection, the cursor and its settings *)

\* the default values of the parameters fetchsize and max_fetchsize
default_fetchsize == 10000
default_max_fetchsize == 10000

\* rows are the rows the executed statement has yet to deliver through fetchmany
SimpleDB(fetchsize, max_fetchsize) ==
    [connected |-> TRUE, arraysize |-> fetchsize, max_fetchsize |-> max_fetchsize,
     rows |-> <<>>]

\* SimpleDB.cleanup: the cursor and the connection are closed
cleanup(d) == [d EXCEPT !.connected = FALSE]

\* cursor.execute(q) for a statement that matches the given rows
execute(d, matching) == [d EXCEPT !.rows = matching]

\* cursor.fetchmany(n): the next rows, at most n of them, and the cursor after it
fetchmany(d, n) ==
    [r |-> Slice(d.rows, 0, n), db |-> [d EXCEPT !.rows = Slice(d.rows, n, Len(d.rows))]]

----------------------------------------------------------------------------
(* ReadlineHistoryFile *)

\* readable tells whether readline.read_history_file read the file
ReadlineHistoryFile(readable) == [valid_history_file |-> readable, written |-> FALSE]

\* path_exists is what os.path.exists answers for the history file
write_history_file(h, path_exists) ==
    [h EXCEPT !.written = (~path_exists \/ h.valid_history_file)]

\* the ReadlineHistoryFile of a session after write_history_file, for every outcome
\* of reading the file when the session began and every answer of os.path.exists
written_histories ==
    {write_history_file(ReadlineHistoryFile(readable), path_exists) :
        readable \in BOOLEAN, path_exists \in BOOLEAN}

----------------------------------------------------------------------------
(* MultilineReadline *)

statement_terminators == << <<";">>, <<"\\","c">>, <<"\\","C">>, <<"\\","g">>, <<"\\","G">> >>

quit_statements ==
    << <<"q","u","i","t">>, <<"q","u","i","t",";">>,
       <<"e","x","i","t">>, <<"e","x","i","t",";">> >>

\* scan_terminators with the first terminator of the list that occurs at all winning
RECURSIVE scan_terminators_first_listed(_, _, _)
scan_terminators_first_listed(buf, k, smallest_index) ==
    IF k > Len(statement_terminators) THEN smallest_index
    ELSE LET term == statement_terminators[k]
             i    == Find(buf, term)
         IN  scan_terminators_first_listed(buf, k + 1,
                 IF i >= 0 /\ smallest_index > Len(buf) THEN i + Len(term) ELSE smallest_index)

\* the for loop of get_statement_from_buffer, from the k-th terminator on
RECURSIVE scan_terminators(_, _, _)
scan_terminators(buf, k, smallest_index) ==
    IF k > Len(statement_terminators) THEN smallest_index
    ELSE LET term == statement_terminators[k]
             i    == Find(buf, term)
         IN  scan_terminators(buf, k + 1,
                 IF i >= 0 /\ i < smallest_index THEN i + Len(term) ELSE smallest_index)

\* get_statement_from_buffer trimming the buffer it leaves behind at both ends
get_statement_from_buffer_strips_both_ends(buf) ==
    LET smallest_index == scan_terminators(buf, 1, Len(buf) + 1)
    IN  IF smallest_index <= Len(buf)
        THEN [part |-> Slice(buf, 0, smallest_index),
              statement_buffer |-> Strip(Slice(buf, smallest_index, Len(buf)))]
        ELSE [part |-> <<>>, statement_buffer |-> buf]

\* returns the statement (part) and the buffer left behind
get_statement_from_buffer(buf) ==
    LET smallest_index == scan_terminators(buf, 1, Len(buf) + 1)
    IN  IF smallest_index <= Len(buf)
        THEN [part |-> Slice(buf, 0, smallest_index),
              statement_buffer |-> LStrip(Slice(buf, smallest_index, Len(buf)))]
        ELSE [part |-> <<>>, statement_buffer |-> buf]

\* clean_buffer emptying only the buffer that is empty already
clean_buffer_keeps_whitespace(buf) ==
    IF buf = <<>> THEN <<>> ELSE RStrip(buf) \o <<" ">>

clean_buffer(buf) ==
    IF Strip(buf) = <<>> THEN <<>> ELSE RStrip(buf) \o <<" ">>

\* TRUE when check_for_quit raises EOFError
check_for_quit(buf) ==
    LET lower_statement_buffer == Lower(buf)
    IN  \E k \in 1..Len(quit_statements) :
            /\ Len(buf) = Len(quit_statements[k])
            /\ lower_statement_buffer = quit_statements[k]

dump_buffer == <<>>

empty_buffer_prompt == "myoracle> "
multiline_prompt == "       -> "

get_prompt(buf) == IF buf # <<>> THEN multiline_prompt ELSE empty_buffer_prompt

\* what raw_input does: it returns a line, or raises EOFError
end_of_input == [eof |-> TRUE, line |-> <<>>]

typed(line) == [eof |-> FALSE, line |-> line]

\* get_query reading a line before it looks for a statement in the buffer
get_query_reads_first(buf, input) ==
    LET joined == buf \o input.line
        second == get_statement_from_buffer(joined)
    IN  IF input.eof
        THEN [raised |-> TRUE, new_statement |-> <<>>,
              statement_buffer |-> buf, extracted_from |-> <<>>,
              prompted |-> <<get_prompt(buf)>>]
        ELSE IF check_for_quit(joined)
        THEN [raised |-> TRUE, new_statement |-> <<>>,
              statement_buffer |-> joined, extracted_from |-> <<>>,
              prompted |-> <<get_prompt(buf)>>]
        ELSE IF second.part # <<>>
        THEN [raised |-> FALSE, new_statement |-> second.part,
              statement_buffer |-> second.statement_buffer, extracted_from |-> joined,
              prompted |-> <<get_prompt(buf)>>]
        ELSE [raised |-> FALSE, new_statement |-> <<>>,
              statement_buffer |-> clean_buffer(joined), extracted_from |-> <<>>,
              prompted |-> <<get_prompt(buf)>>]

\* get_query on the buffer buf, raw_input answering with input when it is called;
\* extracted_from is the buffer the returned statement was cut from, prompted holds
\* the prompt raw_input was called with, if it was called
get_query(buf, input) ==
    LET first  == get_statement_from_buffer(buf)
        joined == buf \o input.line
        second == get_statement_from_buffer(joined)
    IN  IF first.part # <<>>
        THEN [raised |-> FALSE, new_statement |-> first.part,
              statement_buffer |-> first.statement_buffer, extracted_from |-> buf,
              prompted |-> <<>>]
        ELSE IF input.eof
        THEN [raised |-> TRUE, new_statement |-> <<>>,
              statement_buffer |-> buf, extracted_from |-> <<>>,
              prompted |-> <<get_prompt(buf)>>]
        ELSE IF check_for_quit(joined)
        THEN [raised |-> TRUE, new_statement |-> <<>>,
              statement_buffer |-> joined, extracted_from |-> <<>>,
              prompted |-> <<get_prompt(buf)>>]
        ELSE IF second.part # <<>>
        THEN [raised |-> FALSE, new_statement |-> second.part,
              statement_buffer |-> second.statement_buffer, extracted_from |-> joined,
              prompted |-> <<get_prompt(buf)>>]
        ELSE [raised |-> FALSE, new_statement |-> <<>>,
              statement_buffer |-> clean_buffer(joined), extracted_from |-> <<>>,
              prompted |-> <<get_prompt(buf)>>]

----------------------------------------------------------------------------
(* SqlQuery *)

HORIZONTAL_TABLE == 0
HORIZONTAL_TABS == 1
VERTICAL == 2

illegal_query_words ==
    << <<"a","l","t","e","r">>,
       <<"c","h","e","c","k","p","o","i","n","t">>,
       <<"c","o","m","m","e","n","t">>,
       <<"c","o","m","m","i","t">>,
       <<"c","o","n","s","t","r","a","i","n","t">>,
       <<"c","r","e","a","t","e">>,
       <<"d","e","l","e","t","e">>,
       <<"d","r","o","p">>,
       <<"i","n","s","e","r","t">>,
       <<"m","e","r","g","e">>,
       <<"s","a","v","e","p","o","i","n","t">>,
       <<"s","e","t">>,
       <<"t","r","u","n","c","a","t","e">>,
       <<"u","p","d","a","t","e">> >>

\* the literal parts of the pattern  #date\('(.*?)'\)
date_macro_open == <<"#","d","a","t","e","(","'">>
date_macro_close == <<"'",")">>

\* date_macro_re.search: the leftmost start at which the pattern matches and, from
\* there, the nearest closing  ')  (the group is lazy, and . matches no newline)
date_macro_search(s) ==
    LET closes(p) == {q \in (p + Len(date_macro_open))..(Len(s) - Len(date_macro_close)) :
                          /\ Slice(s, q, q + Len(date_macro_close)) = date_macro_close
                          /\ \A k \in (p + Len(date_macro_open) + 1)..q : s[k] # "\n"}
        starts == {p \in 0..(Len(s) - Len(date_macro_open)) :
                          /\ Slice(s, p, p + Len(date_macro_open)) = date_macro_open
                          /\ closes(p) # {}}
    IN  IF starts = {} THEN [found |-> FALSE, match_start |-> 0, match_end |-> 0, group |-> <<>>]
        ELSE LET p == CHOOSE x \in starts : \A y \in starts : x <= y
                 q == CHOOSE x \in closes(p) : \A y \in closes(p) : x <= y
             IN  [found |-> TRUE, match_start |-> p,
                  match_end |-> q + Len(date_macro_close),
                  group |-> Slice(s, p + Len(date_macro_open), q)]

DigitChars == <<"0","1","2","3","4","5","6","7","8","9">>

IsDigit(c) == \E i \in 1..Len(DigitChars) : DigitChars[i] = c

DigitVal(c) == (CHOOSE i \in 1..Len(DigitChars) : DigitChars[i] = c) - 1

AllDigits(f) == \A i \in 1..Len(f) : IsDigit(f[i])

\* int() of a field of digits, a leading blank allowed
RECURSIVE IntOf(_)
IntOf(f) ==
    IF f = <<>> THEN 0
    ELSE IF f[Len(f)] = " " THEN 0
    ELSE IntOf(SubSeq(f, 1, Len(f) - 1)) * 10 + DigitVal(f[Len(f)])

\* a field of one or two digits with a value in lo..hi, as the directives %m %H %M %S match it
TwoDigitField(f, lo, hi, oneLo) ==
    \/ Len(f) = 2 /\ AllDigits(f) /\ IntOf(f) \in lo..hi
    \/ Len(f) = 1 /\ AllDigits(f) /\ IntOf(f) >= oneLo

match_Y(f) == Len(f) = 4 /\ AllDigits(f)
match_m(f) == TwoDigitField(f, 1, 12, 1)
match_d(f) ==
    \/ TwoDigitField(f, 1, 31, 1)
    \/ Len(f) = 2 /\ f[1] = " " /\ IsDigit(f[2]) /\ DigitVal(f[2]) >= 1
match_H(f) == TwoDigitField(f, 0, 23, 0)
match_M(f) == TwoDigitField(f, 0, 59, 0)
match_S(f) == TwoDigitField(f, 0, 61, 0)

\* the ways  %Y-%m-%d  matches a prefix of s; stop is the number of characters consumed
date_matches(s) ==
    {[year |-> IntOf(Slice(s, 0, 4)),
      month |-> IntOf(Slice(s, 5, 5 + lm)),
      day |-> IntOf(Slice(s, 6 + lm, 6 + lm + ld)),
      stop |-> 6 + lm + ld] :
        <<lm, ld>> \in {x \in (1..2) \X (1..2) :
            /\ Len(s) >= 6 + x[1] + x[2]
            /\ match_Y(Slice(s, 0, 4))
            /\ s[5] = "-"
            /\ match_m(Slice(s, 5, 5 + x[1]))
            /\ s[6 + x[1]] = "-"
            /\ match_d(Slice(s, 6 + x[1], 6 + x[1] + x[2]))}}

\* the ways  %H:%M:%S  matches the whole of s
time_matches(s) ==
    {[hour |-> IntOf(Slice(s, 0, x[1])),
      minute |-> IntOf(Slice(s, x[1] + 1, x[1] + 1 + x[2])),
      second |-> IntOf(Slice(s, x[1] + x[2] + 2, Len(s)))] :
        x \in {y \in (1..2) \X (1..2) \X (1..2) :
            /\ Len(s) = y[1] + y[2] + y[3] + 2
            /\ match_H(Slice(s, 0, y[1]))
            /\ s[y[1] + 1] = ":"
            /\ match_M(Slice(s, y[1] + 1, y[1] + 1 + y[2]))
            /\ s[y[1] + y[2] + 2] = ":"
            /\ match_S(Slice(s, y[1] + y[2] + 2, Len(s)))}}

IsLeap(y) == y % 4 = 0 /\ (y % 100 # 0 \/ y % 400 = 0)

DaysInMonth(y, m) ==
    IF m = 2 THEN (IF IsLeap(y) THEN 29 ELSE 28)
    ELSE IF m \in {4, 6, 9, 11} THEN 30 ELSE 31

\* the values datetime accepts and strftime formats (strftime refuses years before 1900)
ValidDateTime(t) ==
    /\ t.year >= 1900
    /\ t.day <= DaysInMonth(t.year, t.month)
    /\ t.second <= 59

\* datetime.strptime(s, fmt) for the formats of get_actual_date; the empty set is ValueError
strptime(s, fmt) ==
    LET whole == {[year |-> d.year, month |-> d.month, day |-> d.day,
                   hour |-> 0, minute |-> 0, second |-> 0] :
                      d \in {e \in date_matches(s) : e.stop = Len(s)}}
        stamped == UNION {
                     UNION {
                       {[year |-> d.year, month |-> d.month, day |-> d.day,
                         hour |-> t.hour, minute |-> t.minute, second |-> t.second] :
                            t \in time_matches(Slice(s, w, Len(s)))} :
                       w \in {v \in (d.stop + 1)..Len(s) :
                                 \A k \in (d.stop + 1)..v : s[k] \in Whitespace}} :
                     d \in date_matches(s)}
    IN  IF fmt = 1 THEN stamped ELSE whole

Pad2(n) == <<DigitChars[(n \div 10) + 1], DigitChars[(n % 10) + 1]>>

Pad4(n) == Pad2(n \div 100) \o Pad2(n % 100)

\* time_tuple.strftime('%Y-%m-%d %H:%M:%S')
strftime(t) ==
    Pad4(t.year) \o <<"-">> \o Pad2(t.month) \o <<"-">> \o Pad2(t.day) \o <<" ">>
    \o Pad2(t.hour) \o <<":">> \o Pad2(t.minute) \o <<":">> \o Pad2(t.second)

to_date_open == <<"t","o","_","d","a","t","e","(","'">>
to_date_close == <<"'",","," ","'","Y","Y","Y","Y","-","M","M","-","D","D"," ","H","H","2","4",":","M","I",":","S","S","'",")">>

\* the replacement text of a date literal, or the empty string when no format parses it
get_actual_date(date_str) ==
    LET s == Strip(date_str)
        ok(fmt) == {t \in strptime(s, fmt) : ValidDateTime(t)}
    IN  IF ok(1) # {} THEN to_date_open \o strftime(CHOOSE t \in ok(1) : TRUE) \o to_date_close
        ELSE IF ok(2) # {} THEN to_date_open \o strftime(CHOOSE t \in ok(2) : TRUE) \o to_date_close
        ELSE <<>>

\* date_macro_substitution rewriting the first macro only
date_macro_substitution_once(q) ==
    LET macro_match == date_macro_search(q.query_statement)
        actual_date == get_actual_date(macro_match.group)
    IN  IF ~macro_match.found THEN q
        ELSE IF actual_date = <<>>
        THEN [q EXCEPT !.bad_macro = TRUE, !.bad_macro_string = macro_match.group]
        ELSE [q EXCEPT !.query_statement =
                  Slice(q.query_statement, 0, macro_match.match_start)
                  \o actual_date
                  \o Slice(q.query_statement, macro_match.match_end,
                           Len(q.query_statement))]

\* the while loop of date_macro_substitution on the SqlQuery q
RECURSIVE date_macro_substitution(_)
date_macro_substitution(q) ==
    LET macro_match == date_macro_search(q.query_statement)
        actual_date == get_actual_date(macro_match.group)
    IN  IF ~macro_match.found THEN q
        ELSE IF actual_date = <<>>
        THEN [q EXCEPT !.bad_macro = TRUE, !.bad_macro_string = macro_match.group]
        ELSE date_macro_substitution(
                 [q EXCEPT !.query_statement =
                      Slice(q.query_statement, 0, macro_match.match_start)
                      \o actual_date
                      \o Slice(q.query_statement, macro_match.match_end,
                               Len(q.query_statement))])

\* is_illegal_query without the case folding
is_illegal_query_case_sensitive(stmt) ==
    LET query == Strip(stmt)
    IN  \E k \in 1..Len(illegal_query_words) : StartsWith(query, illegal_query_words[k])

is_illegal_query(stmt) ==
    LET lower_query == Lower(Strip(stmt))
    IN  \E k \in 1..Len(illegal_query_words) : StartsWith(lower_query, illegal_query_words[k])

\* the fields SqlQuery.__init__ sets before it calls parse_query
new_query(stmt) ==
    [query_statement |-> stmt, view_type |-> HORIZONTAL_TABLE, cancelled |-> FALSE,
     illegal_query |-> FALSE, bad_macro |-> FALSE, bad_macro_string |-> <<>>]

\* strip_terminator looking for \g and \G before it looks at the single-shot flag
strip_terminator_vertical_first(q, exec) ==
    IF EndsWith(q.query_statement, <<"\\","g">>) \/ EndsWith(q.query_statement, <<"\\","G">>)
    THEN [q EXCEPT !.query_statement = Slice(@, 0, Len(@) - 2), !.view_type = VERTICAL]
    ELSE IF exec # <<>>
    THEN [q EXCEPT !.view_type = HORIZONTAL_TABS,
                   !.query_statement =
                       IF EndsWith(@, <<";">>) THEN Slice(@, 0, Len(@) - 1) ELSE @]
    ELSE IF EndsWith(q.query_statement, <<";">>)
    THEN [q EXCEPT !.query_statement = Slice(@, 0, Len(@) - 1), !.view_type = HORIZONTAL_TABLE]
    ELSE q

\* the terminator-driven part of parse_query, after the macro substitution
strip_terminator(q, exec) ==
    IF exec # <<>>
    THEN [q EXCEPT !.view_type = HORIZONTAL_TABS,
                   !.query_statement =
                       IF EndsWith(@, <<";">>) THEN Slice(@, 0, Len(@) - 1) ELSE @]
    ELSE IF EndsWith(q.query_statement, <<"\\","g">>) \/ EndsWith(q.query_statement, <<"\\","G">>)
    THEN [q EXCEPT !.query_statement = Slice(@, 0, Len(@) - 2), !.view_type = VERTICAL]
    ELSE IF EndsWith(q.query_statement, <<";">>)
    THEN [q EXCEPT !.query_statement = Slice(@, 0, Len(@) - 1), !.view_type = HORIZONTAL_TABLE]
    ELSE q

\* parse_query without the return that follows cancelled = True
parse_query_no_return(q, exec) ==
    strip_terminator(
        date_macro_substitution(
            [q EXCEPT !.cancelled = EndsWith(q.query_statement, <<"\\","c">>)
                                    \/ EndsWith(q.query_statement, <<"\\","C">>),
                      !.illegal_query = is_illegal_query(q.query_statement)]),
        exec)

\* parse_query leaving the view type and the terminator of an illegal statement alone
parse_query_illegal_keeps_terminator(q, exec) ==
    IF EndsWith(q.query_statement, <<"\\","c">>) \/ EndsWith(q.query_statement, <<"\\","C">>)
    THEN [q EXCEPT !.cancelled = TRUE]
    ELSE IF is_illegal_query(q.query_statement)
    THEN date_macro_substitution([q EXCEPT !.illegal_query = TRUE])
    ELSE strip_terminator(date_macro_substitution(q), exec)

parse_query(q, exec) ==
    IF EndsWith(q.query_statement, <<"\\","c">>) \/ EndsWith(q.query_statement, <<"\\","C">>)
    THEN [q EXCEPT !.cancelled = TRUE]
    ELSE strip_terminator(
             date_macro_substitution(
                 [q EXCEPT !.illegal_query = is_illegal_query(q.query_statement)]),
             exec)

\* SqlQuery(query_statement, cmd_line_options); exec is cmd_line_options.execute_query
SqlQuery(stmt, exec) == parse_query(new_query(stmt), exec)

----------------------------------------------------------------------------
(* The views: View, HorizontalView, HorizontalTabView, HorizontalTableView,   *)
(* VerticalView. A cell is a record of its Python type and its value; a view *)
(* is named by its view type.                                                *)

null_display == <<"N","U","L","L">>

None == [type |-> "NoneType", value |-> <<>>]

NullType(null_string) == [type |-> "NullType", value |-> null_string]

\* str(x) for a cell or a column name
str(x) ==
    IF x.type = "NoneType" THEN <<"N","o","n","e">>
    ELSE IF x.type = "int" THEN Decimal(x.value)
    ELSE x.value

\* translate_none_to_null leaving None in place
translate_none_to_null_skipped(rows) == rows

\* the list the call leaves behind in results
translate_none_to_null(rows) ==
    [i \in 1..Len(rows) |->
        [j \in 1..Len(rows[i]) |->
            IF rows[i][j].type = "NoneType" THEN NullType(null_display) ELSE rows[i][j]]]

\* get_result_set_summary without the Empty set case
get_result_set_summary_always_counts(num_rows) ==
    Decimal(num_rows) \o <<" ","r","o","w","s"," ","i","n"," ","s","e","t","\n","\n">>

get_result_set_summary(num_rows) ==
    IF num_rows > 0
    THEN Decimal(num_rows) \o <<" ","r","o","w","s"," ","i","n"," ","s","e","t","\n","\n">>
    ELSE <<"E","m","p","t","y"," ","s","e","t","\n","\n">>

\* the row number the loop  for row_num, row in enumerate(string_results)  ends with,
\* taken as the length of the list
last_row_num_is_length(string_results) == Len(string_results)

\* the row number the loop  for row_num, row in enumerate(string_results)  ends with
last_row_num(string_results) == Len(string_results) - 1

want_header(view_type) == view_type = HORIZONTAL_TABLE

\* [map(str, row) for row in rows]
string_rows(rows) == [i \in 1..Len(rows) |-> [j \in 1..Len(rows[i]) |-> str(rows[i][j])]]

get_left_justification(view_type, rows) ==
    [j \in 1..Len(rows[1]) |->
        /\ view_type = HORIZONTAL_TABLE
        /\ \E i \in 1..Len(rows) :
              /\ j <= Len(rows[i])
              /\ rows[i][j].type # "NoneType"
              /\ rows[i][j].type = "str"]

get_col_width(view_type, string_results) ==
    [j \in 1..Len(string_results[1]) |->
        IF view_type = HORIZONTAL_TABLE
        THEN LET widths == {Len(string_results[i][j]) : i \in 1..Len(string_results)}
             IN  CHOOSE w \in widths \union {0} : \A v \in widths : v <= w
        ELSE 0]

get_header_footer(col_width) ==
    LET line_segments == [j \in 1..Len(col_width) |->
                             <<"-">> \o Repeat("-", col_width[j]) \o <<"-">>]
    IN  <<"+">> \o Join(<<"+">>, line_segments) \o <<"+">>

\* what print_header_footer appends to self.output
print_header_footer(view_type, col_width) ==
    IF view_type = HORIZONTAL_TABLE THEN get_header_footer(col_width) \o <<"\n">> ELSE <<>>

\* what print_result_set_summary appends to self.output
print_result_set_summary(view_type, num_rows) ==
    IF view_type = HORIZONTAL_TABLE THEN get_result_set_summary(num_rows) ELSE <<>>

\* create_format_string(col_width, left_justification) % tuple(row)
format_row(view_type, col_width, left_justification, row) ==
    IF view_type = HORIZONTAL_TABLE
    THEN LET fields == [j \in 1..Len(col_width) |->
                           <<" ">>
                           \o (IF left_justification[j]
                               THEN LeftJustify(row[j], col_width[j])
                               ELSE RightJustify(row[j], col_width[j]))
                           \o <<" ">>]
         IN  <<"|">> \o Join(<<"|">>, fields) \o <<"|">> \o <<"\n">>
    ELSE Join(<<"\t">>, [j \in 1..Len(col_width) |-> row[j]]) \o <<"\n">>

\* HorizontalView.format_results for the views HORIZONTAL_TABLE and HORIZONTAL_TABS
HorizontalView_format_results(view_type, rows, column_names) ==
    IF rows = <<>> THEN print_result_set_summary(view_type, 0)
    ELSE LET left_justification == get_left_justification(view_type, rows)
             translated == translate_none_to_null(rows)
             with_header == IF want_header(view_type)
                            THEN <<column_names>> \o translated ELSE translated
             string_results == string_rows(with_header)
             col_width == get_col_width(view_type, string_results)
             row_num == last_row_num(string_results)
             body[i \in 0..Len(string_results)] ==
                 IF i = 0 THEN <<>>
                 ELSE body[i - 1]
                      \o format_row(view_type, col_width, left_justification,
                                    string_results[i])
                      \o (IF i - 1 = 0 THEN print_header_footer(view_type, col_width)
                          ELSE <<>>)
         IN  print_header_footer(view_type, col_width)
             \o body[Len(string_results)]
             \o print_header_footer(view_type, col_width)
             \o print_result_set_summary(view_type, row_num)

max_header_width == 40

row_separator_stars == 30

get_header_width(column_names) ==
    LET widths == {Len(str(column_names[j])) : j \in 1..Len(column_names)}
        widest == CHOOSE w \in widths : \A v \in widths : v <= w
    IN  IF widest < max_header_width THEN widest ELSE max_header_width

get_row_separator(row_num) ==
    LET stars == Repeat("*", row_separator_stars)
    IN  stars \o <<" ">> \o Decimal(row_num) \o <<"."," ","r","o","w"," ">> \o stars \o <<"\n">>

VerticalView_format_results(rows, column_names) ==
    IF rows = <<>> THEN get_result_set_summary(0)
    ELSE LET header_width == get_header_width(column_names)
             translated == translate_none_to_null(rows)
             string_results == string_rows(translated)
             row_num == last_row_num(string_results)
             zipped(row) == IF Len(row) < Len(column_names) THEN Len(row)
                            ELSE Len(column_names)
             columns(row) ==
                 LET text[j \in 0..zipped(row)] ==
                         IF j = 0 THEN <<>>
                         ELSE text[j - 1]
                              \o RightJustify(str(column_names[j]), header_width)
                              \o <<":"," ">> \o row[j] \o <<"\n">>
                 IN  text[zipped(row)]
             body[i \in 0..Len(string_results)] ==
                 IF i = 0 THEN <<>>
                 ELSE body[i - 1] \o get_row_separator((i - 1) + 1)
                      \o columns(string_results[i])
         IN  body[Len(string_results)] \o get_result_set_summary(row_num + 1)

\* get_view(view_type).format_results(rows, column_names)
format_results(view_type, rows, column_names) ==
    IF view_type = VERTICAL THEN VerticalView_format_results(rows, column_names)
    ELSE HorizontalView_format_results(view_type, rows, column_names)

\* the list results refers to after format_results: it is translated in place
\* unless it is empty
results_after_format(rows) ==
    IF rows = <<>> THEN rows ELSE translate_none_to_null(rows)

----------------------------------------------------------------------------
(* The driver: handle_single_query, run_ui_query_loop, run_it *)

no_query == new_query(<<>>)

\* the values of db and readline_history before run_it and run_ui_query_loop build them
no_db == [connected |-> FALSE, arraysize |-> 0, max_fetchsize |-> 0, rows |-> <<>>]

no_history == [valid_history_file |-> FALSE, written |-> FALSE]

no_output == [kind |-> "none", text |-> <<>>]

\* handle_single_query reporting a cancelled statement as a failure
handle_single_query_cancel_fails(q, db_result) ==
    IF q.cancelled
    THEN [success |-> FALSE, submitted |-> <<>>, output |-> no_output]
    ELSE IF q.illegal_query
    THEN [success |-> FALSE, submitted |-> <<>>,
          output |-> [kind |-> "illegal", text |-> q.query_statement]]
    ELSE IF q.bad_macro
    THEN [success |-> FALSE, submitted |-> <<>>,
          output |-> [kind |-> "bad_macro", text |-> q.bad_macro_string]]
    ELSE IF db_result = "ok"
    THEN [success |-> TRUE, submitted |-> <<q.query_statement>>,
          output |-> [kind |-> "result", text |-> <<>>]]
    ELSE [success |-> FALSE, submitted |-> <<q.query_statement>>,
          output |-> [kind |-> "db_error", text |-> <<>>]]

\* handle_single_query without the bad_macro branch
handle_single_query_runs_bad_macro(q, db_result) ==
    IF q.cancelled
    THEN [success |-> TRUE, submitted |-> <<>>, output |-> no_output]
    ELSE IF q.illegal_query
    THEN [success |-> FALSE, submitted |-> <<>>,
          output |-> [kind |-> "illegal", text |-> q.query_statement]]
    ELSE IF db_result = "ok"
    THEN [success |-> TRUE, submitted |-> <<q.query_statement>>,
          output |-> [kind |-> "result", text |-> <<>>]]
    ELSE [success |-> FALSE, submitted |-> <<q.query_statement>>,
          output |-> [kind |-> "db_error", text |-> <<>>]]

\* handle_single_query returning True after it reported an illegal statement
handle_single_query_illegal_succeeds(q, db_result) ==
    IF q.cancelled
    THEN [success |-> TRUE, submitted |-> <<>>, output |-> no_output]
    ELSE IF q.illegal_query
    THEN [success |-> TRUE, submitted |-> <<>>,
          output |-> [kind |-> "illegal", text |-> q.query_statement]]
    ELSE IF q.bad_macro
    THEN [success |-> FALSE, submitted |-> <<>>,
          output |-> [kind |-> "bad_macro", text |-> q.bad_macro_string]]
    ELSE IF db_result = "ok"
    THEN [success |-> TRUE, submitted |-> <<q.query_statement>>,
          output |-> [kind |-> "result", text |-> <<>>]]
    ELSE [success |-> FALSE, submitted |-> <<q.query_statement>>,
          output |-> [kind |-> "db_error", text |-> <<>>]]

\* db_result is what db.query does: it returns rows ("ok") or raises cx_Oracle.Error ("Error")
handle_single_query(q, db_result) ==
    IF q.cancelled
    THEN [success |-> TRUE, submitted |-> <<>>, output |-> no_output]
    ELSE IF q.illegal_query
    THEN [success |-> FALSE, submitted |-> <<>>,
          output |-> [kind |-> "illegal", text |-> q.query_statement]]
    ELSE IF q.bad_macro
    THEN [success |-> FALSE, submitted |-> <<>>,
          output |-> [kind |-> "bad_macro", text |-> q.bad_macro_string]]
    ELSE IF db_result = "ok"
    THEN [success |-> TRUE, submitted |-> <<q.query_statement>>,
          output |-> [kind |-> "result", text |-> <<>>]]
    ELSE [success |-> FALSE, submitted |-> <<q.query_statement>>,
          output |-> [kind |-> "db_error", text |-> <<>>]]

----------------------------------------------------------------------------
(* Inputs *)

\* every concatenation of at most n members of P
RECURSIVE Concats(_, _)
Concats(P, n) ==
    IF n = 0 THEN {<<>>}
    ELSE LET shorter == Concats(P, n - 1)
         IN  shorter \union {a \o b : a \in shorter, b \in P}

LinePieces ==
    { <<" ">>,
      <<";">>,
      <<"\\","c">>,
      <<"d","r","o","p">>,
      <<"q","u","i","t">>,
      <<"#","d","a","t","e","(","'","x","'",")">> }

Lines == Concats(LinePieces, MaxLinePieces)

StmtPieces ==
    { <<"d","r","o","p">>,
      <<"S","e","t">>,
      <<"s","e","l">>,
      <<" ">>,
      <<";">>,
      <<"\\","c">>,
      <<"\\","C">>,
      <<"\\","g">>,
      <<"\\","G">>,
      <<"#","d","a","t","e","(","'","2","0","2","0","-","0","2","-","2","9","'",")">>,
      <<"#","d","a","t","e","(","'"," ","2","0","2","1","-","1","-","2"," ","3",":","0","4",":","0","5"," ","'",")">>,
      <<"#","d","a","t","e","(","'","x","'",")">>,
      <<"#","d","a","t","e","(","'","2","0","2","1","-","0","2","-","2","9","'",")">> }

Statements == Concats(StmtPieces, MaxStmtPieces)

Chars == { <<";">>, <<"\\">>, <<"c">>, <<"G">>, <<" ">> }

CharLines == Concats(Chars, MaxLineChars)

\* the buffers statement_buffer += more_input leaves for get_statement_from_buffer
BufferChars == Chars \union { <<"\t">> }

Buffers == Concats(BufferChars, MaxBuffer)

DbResults == {"ok", "Error"}

\* the values a cell of a result set takes
Cells ==
    { None,
      [type |-> "str", value |-> <<"a","b">>],
      [type |-> "str", value |-> <<>>],
      [type |-> "int", value |-> 7] }

\* the column names db.query returns with the rows
ColumnNames ==
    { << [type |-> "str", value |-> <<"i","d">>] >>,
      << [type |-> "str", value |-> <<"n">>], [type |-> "str", value |-> <<"i","d">>] >> }

\* the result sets of at most MaxRows rows under the given column names
ResultSets(column_names) ==
    UNION {[1..n -> [1..Len(column_names) -> Cells]] : n \in 0..MaxRows}

ViewTypes == {HORIZONTAL_TABLE, HORIZONTAL_TABS, VERTICAL}

----------------------------------------------------------------------------
(* The program: run_it *)

Init ==
    /\ execute_query \in Statements
    /\ pc = "run_it"
    /\ statement_buffer = <<>>
    /\ query_statement = <<>>
    /\ query_object = no_query
    /\ pre_buffer = <<>>
    /\ submitted = <<>>
    /\ output = no_output
    /\ dumped = FALSE
    /\ exit_reason = "none"
    /\ rewritten = <<>>
    /\ db = no_db
    /\ readline_history = no_history
    /\ prompt = <<>>
    /\ num_fetched = 0
    /\ results = <<>>
    /\ header = <<>>

\* run_it with options.execute_query set: one statement, then sys.exit(0)
RunSingleQuery ==
    /\ pc = "run_it"
    /\ execute_query # <<>>
    /\ \E db_result \in DbResults :
          LET q == SqlQuery(execute_query, execute_query)
              h == handle_single_query(q, db_result)
          IN  /\ query_statement' = execute_query
              /\ query_object' = q
              /\ submitted' = h.submitted
              /\ output' = h.output
    /\ pc' = "exit"
    /\ exit_reason' = "sys.exit"
    /\ db' = SimpleDB(default_fetchsize, default_max_fetchsize)
    /\ UNCHANGED <<execute_query, statement_buffer, pre_buffer, dumped, rewritten>>
    /\ UNCHANGED <<readline_history, prompt, result_vars>>

\* run_it without a statement: run_ui_query_loop up to the first get_query; whether
\* ReadlineHistoryFile could read the history file shows only when the loop is left,
\* and is drawn there
StartUiLoop ==
    /\ pc = "run_it"
    /\ execute_query = <<>>
    /\ pc' = "get_query"
    /\ db' = SimpleDB(default_fetchsize, default_max_fetchsize)
    /\ UNCHANGED <<execute_query, statement_buffer, query_statement, query_object,
                   pre_buffer, submitted, output, dumped, exit_reason, rewritten>>
    /\ UNCHANGED <<readline_history, prompt, result_vars>>

\* the answers of raw_input to a get_query on buf: none is asked for when buf holds a
\* statement, and no further line is typed once buf is longer than limit
raw_inputs(buf, lines, limit) ==
    IF get_statement_from_buffer(buf).part # <<>> THEN {end_of_input}
    ELSE {end_of_input} \union (IF Len(buf) <= limit THEN {typed(l) : l \in lines} ELSE {})

\* one call of get_query from the loop: a statement goes to the loop body, None
\* leads to the next call, EOFError leaves the loop
GetQuery ==
    /\ pc = "get_query"
    /\ \E input \in raw_inputs(statement_buffer, Lines, MaxBuffer) :
          LET r == get_query(statement_buffer, input)
          IN  /\ statement_buffer' = r.statement_buffer
              /\ query_statement' = r.new_statement
              /\ pre_buffer' = r.extracted_from
              /\ pc' = IF r.raised THEN "exit"
                       ELSE IF r.new_statement # <<>> THEN "handle" ELSE "get_query"
              /\ exit_reason' = IF r.raised THEN "EOFError" ELSE exit_reason
              /\ prompt' = r.prompted
              /\ IF r.raised
                 THEN readline_history' \in written_histories
                 ELSE UNCHANGED readline_history
    /\ query_object' = no_query
    /\ submitted' = <<>>
    /\ output' = no_output
    /\ dumped' = FALSE
    /\ UNCHANGED <<execute_query, rewritten, db, result_vars>>

\* the loop body for a statement: SqlQuery, handle_single_query, dump_buffer on failure
HandleQuery ==
    /\ pc = "handle"
    /\ \E db_result \in DbResults :
          LET q == SqlQuery(query_statement, execute_query)
              h == handle_single_query(q, db_result)
          IN  /\ query_object' = q
              /\ submitted' = h.submitted
              /\ output' = h.output
              /\ dumped' = ~h.success
              /\ statement_buffer' = IF h.success THEN statement_buffer ELSE dump_buffer
    /\ pc' = "get_query"
    /\ UNCHANGED <<execute_query, query_statement, pre_buffer, exit_reason, rewritten>>
    /\ UNCHANGED <<session_vars, result_vars>>

\* KeyboardInterrupt anywhere inside the loop's try block
Interrupt ==
    /\ pc \in {"get_query", "handle"}
    /\ pc' = "exit"
    /\ exit_reason' = "KeyboardInterrupt"
    /\ readline_history' \in written_histories
    /\ UNCHANGED <<execute_query, statement_buffer, query_statement, query_object,
                   pre_buffer, submitted, output, dumped, rewritten>>
    /\ UNCHANGED <<db, prompt, result_vars>>

Next == RunSingleQuery \/ StartUiLoop \/ GetQuery \/ HandleQuery \/ Interrupt

Spec == Init /\ [][Next]_vars

----------------------------------------------------------------------------
(* SqlQuery as a function of its two arguments *)

ExecuteFlags == {<<>>, <<"x">>}

InitQuery ==
    /\ query_statement \in Statements
    /\ execute_query \in ExecuteFlags
    /\ pc = "new"
    /\ statement_buffer = <<>>
    /\ query_object = no_query
    /\ pre_buffer = <<>>
    /\ submitted = <<>>
    /\ output = no_output
    /\ dumped = FALSE
    /\ exit_reason = "none"
    /\ rewritten = <<>>
    /\ db = no_db
    /\ readline_history = no_history
    /\ prompt = <<>>
    /\ num_fetched = 0
    /\ results = <<>>
    /\ header = <<>>

\* SqlQuery(query_statement, options)
Construct ==
    /\ pc = "new"
    /\ query_object' = SqlQuery(query_statement, execute_query)
    /\ pc' = "constructed"
    /\ UNCHANGED <<execute_query, statement_buffer, query_statement, pre_buffer,
                   submitted, output, dumped, exit_reason, rewritten>>
    /\ UNCHANGED <<session_vars, result_vars>>

\* date_macro_substitution on the text as given, then once more on its own result
Rewrite ==
    /\ pc \in {"new", "rewriting"}
    /\ Len(rewritten) < 2
    /\ IF rewritten = <<>> THEN TRUE ELSE ~rewritten[Len(rewritten)].bad_macro
    /\ rewritten' = Append(rewritten,
           date_macro_substitution(
               new_query(IF rewritten = <<>> THEN query_statement
                         ELSE rewritten[Len(rewritten)].query_statement)))
    /\ pc' = "rewriting"
    /\ UNCHANGED <<execute_query, statement_buffer, query_statement, query_object,
                   pre_buffer, submitted, output, dumped, exit_reason>>
    /\ UNCHANGED <<session_vars, result_vars>>

NextQuery == Construct \/ Rewrite

SpecQuery == InitQuery /\ [][NextQuery]_vars

----------------------------------------------------------------------------
(* MultilineReadline alone: get_query and dump_buffer called in any order *)

InitBuffer ==
    /\ pc = "constructed"
    /\ execute_query = <<>>
    /\ statement_buffer = <<>>
    /\ query_statement = <<>>
    /\ query_object = no_query
    /\ pre_buffer = <<>>
    /\ submitted = <<>>
    /\ output = no_output
    /\ dumped = FALSE
    /\ exit_reason = "none"
    /\ rewritten = <<>>
    /\ db = no_db
    /\ readline_history = no_history
    /\ prompt = <<>>
    /\ num_fetched = 0
    /\ results = <<>>
    /\ header = <<>>

CallGetQuery ==
    /\ pc \in {"constructed", "ready", "dumped"}
    /\ \E input \in raw_inputs(statement_buffer, CharLines, MaxPending) :
          LET r == get_query(statement_buffer, input)
          IN  /\ statement_buffer' = r.statement_buffer
              /\ query_statement' = r.new_statement
              /\ pre_buffer' = r.extracted_from
              /\ pc' = IF r.raised THEN "raised" ELSE "returned"
              /\ exit_reason' = IF r.raised THEN "EOFError" ELSE exit_reason
              /\ prompt' = r.prompted
    /\ dumped' = FALSE
    /\ UNCHANGED <<execute_query, query_object, submitted, output, rewritten>>
    /\ UNCHANGED <<db, readline_history, result_vars>>

\* the caller is done with what get_query returned and keeps the buffer
KeepBuffer ==
    /\ pc = "returned"
    /\ pc' = "ready"
    /\ query_statement' = <<>>
    /\ pre_buffer' = <<>>
    /\ prompt' = <<>>
    /\ UNCHANGED <<execute_query, statement_buffer, query_object, submitted, output,
                   dumped, exit_reason, rewritten>>
    /\ UNCHANGED <<db, readline_history, result_vars>>

\* the caller is done with what get_query returned and calls dump_buffer
CallDumpBuffer ==
    /\ pc \in {"constructed", "returned"}
    /\ statement_buffer' = dump_buffer
    /\ pc' = "dumped"
    /\ dumped' = TRUE
    /\ query_statement' = <<>>
    /\ pre_buffer' = <<>>
    /\ prompt' = <<>>
    /\ UNCHANGED <<execute_query, query_object, submitted, output, exit_reason, rewritten>>
    /\ UNCHANGED <<db, readline_history, result_vars>>

NextBuffer == CallGetQuery \/ KeepBuffer \/ CallDumpBuffer

SpecBuffer == InitBuffer /\ [][NextBuffer]_vars

----------------------------------------------------------------------------
(* A view formatting a result set: get_view(view_type).format_results(...) *)

InitView ==
    /\ pc = "format"
    /\ header \in ColumnNames
    /\ results \in ResultSets(header)
    /\ query_object \in {[no_query EXCEPT !.view_type = v] : v \in ViewTypes}
    /\ execute_query = <<>>
    /\ statement_buffer = <<>>
    /\ query_statement = <<>>
    /\ pre_buffer = <<>>
    /\ submitted = <<>>
    /\ output = no_output
    /\ dumped = FALSE
    /\ exit_reason = "none"
    /\ rewritten = <<>>
    /\ db = no_db
    /\ readline_history = no_history
    /\ prompt = <<>>
    /\ num_fetched = 0

\* result_str = view.format_results(results, header)
FormatResults ==
    /\ pc = "format"
    /\ output' = [kind |-> "result",
                  text |-> format_results(query_object.view_type, results, header)]
    /\ results' = results_after_format(results)
    /\ pc' = "formatted"
    /\ UNCHANGED <<execute_query, statement_buffer, query_statement, query_object,
                   pre_buffer, submitted, dumped, exit_reason, rewritten>>
    /\ UNCHANGED <<session_vars, num_fetched, header>>

NextView == FormatResults

SpecView == InitView /\ [][NextView]_vars

----------------------------------------------------------------------------
(* SimpleDB.query on a SimpleDB built with any fetchsize and max_fetchsize *)

InitDB ==
    /\ pc = "query"
    /\ db \in {SimpleDB(fetchsize, max_fetchsize) :
                  fetchsize \in 1..MaxFetchsize, max_fetchsize \in 1..MaxFetchsize}
    /\ num_fetched = 0
    /\ results = <<>>
    /\ header = <<>>
    /\ execute_query = <<>>
    /\ statement_buffer = <<>>
    /\ query_statement = <<>>
    /\ query_object = no_query
    /\ pre_buffer = <<>>
    /\ submitted = <<>>
    /\ output = no_output
    /\ dumped = FALSE
    /\ exit_reason = "none"
    /\ rewritten = <<>>
    /\ readline_history = no_history
    /\ prompt = <<>>

\* query up to its loop: cursor.execute(q), result = [], num_fetched = 0
Execute ==
    /\ pc = "query"
    /\ \E n \in 0..MaxMatching : db' = execute(db, [k \in 1..n |-> k])
    /\ results' = <<>>
    /\ num_fetched' = 0
    /\ pc' = "fetch"
    /\ UNCHANGED <<execute_query, statement_buffer, query_statement, query_object,
                   pre_buffer, submitted, output, dumped, exit_reason, rewritten>>
    /\ UNCHANGED <<readline_history, prompt, header>>

\* one turn of the loop of query; leaving the loop, query returns result
FetchMany ==
    /\ pc = "fetch"
    /\ LET fetched == fetchmany(db, db.arraysize)
       IN  /\ db' = fetched.db
           /\ IF fetched.r = <<>>
              THEN /\ pc' = "returned"
                   /\ UNCHANGED <<results, num_fetched>>
              ELSE /\ results' = results \o fetched.r
                   /\ num_fetched' = num_fetched + db.arraysize
                   /\ pc' = IF num_fetched' >= db.max_fetchsize THEN "returned" ELSE "fetch"
    /\ UNCHANGED <<execute_query, statement_buffer, query_statement, query_object,
                   pre_buffer, submitted, output, dumped, exit_reason, rewritten>>
    /\ UNCHANGED <<readline_history, prompt, header>>

NextDB == Execute \/ FetchMany

SpecDB == InitDB /\ [][NextDB]_vars

----------------------------------------------------------------------------
(* get_statement_from_buffer as a function of the buffer it is called on *)

InitExtract ==
    /\ statement_buffer \in Buffers
    /\ pc = "joined"
    /\ execute_query = <<>>
    /\ query_statement = <<>>
    /\ query_object = no_query
    /\ pre_buffer = <<>>
    /\ submitted = <<>>
    /\ output = no_output
    /\ dumped = FALSE
    /\ exit_reason = "none"
    /\ rewritten = <<>>
    /\ db = no_db
    /\ readline_history = no_history
    /\ prompt = <<>>
    /\ num_fetched = 0
    /\ results = <<>>
    /\ header = <<>>

\* new_statement = self.get_statement_from_buffer()
GetStatementFromBuffer ==
    /\ pc = "joined"
    /\ LET r == get_statement_from_buffer(statement_buffer)
       IN  /\ query_statement' = r.part
           /\ statement_buffer' = r.statement_buffer
    /\ pre_buffer' = statement_buffer
    /\ pc' = "extracted"
    /\ UNCHANGED <<execute_query, query_object, submitted, output, dumped, exit_reason,
                   rewritten>>
    /\ UNCHANGED <<session_vars, result_vars>>

NextExtract == GetStatementFromBuffer

SpecExtract == InitExtract /\ [][NextExtract]_vars

----------------------------------------------------------------------------
(* Properties *)

\* the 0-based indices of buf at which some terminator occurs
TerminatorStarts(buf) ==
    {i \in 0..(Len(buf) - 1) :
        \E k \in 1..Len(statement_terminators) :
            Slice(buf, i, i + Len(statement_terminators[k])) = statement_terminators[k]}

\* the prefix of buf that ends with the terminator occurrence starting at index i
PrefixThrough(buf, i) ==
    LET k == CHOOSE j \in 1..Len(statement_terminators) :
                 Slice(buf, i, i + Len(statement_terminators[j])) = statement_terminators[j]
    IN  Slice(buf, 0, i + Len(statement_terminators[k]))

EndsWithCancel(stmt) == EndsWith(stmt, <<"\\","c">>) \/ EndsWith(stmt, <<"\\","C">>)

\* the statement, trimmed and case-folded, begins with a disallowed keyword
BeginsWithDisallowed(stmt) ==
    \E k \in 1..Len(illegal_query_words) :
        LET w == illegal_query_words[k]
            t == LStrip(stmt)
        IN  /\ Len(t) >= Len(w)
            /\ \A i \in 1..Len(w) : LowerChar(t[i]) = w[i]

\* the 0-based indices of stmt where #date(' stands with a closing ') somewhere after it
MacroOccurrences(stmt) ==
    {p \in 0..(Len(stmt) - 1) :
        /\ Slice(stmt, p, p + 7) = date_macro_open
        /\ \E q \in (p + 7)..(Len(stmt) - 1) : Slice(stmt, q, q + 2) = date_macro_close}

\* the literal of the macro that stands at index p of stmt, up to the nearest ')
MacroLiteral(stmt, p) ==
    LET closes == {q \in (p + 7)..(Len(stmt) - 1) : Slice(stmt, q, q + 2) = date_macro_close}
        q == CHOOSE x \in closes : \A y \in closes : x <= y
    IN  Slice(stmt, p + 7, q)

\* C1: a statement returned by get_query is the prefix of the buffer it was cut from
\* that ends with the terminator occurrence of the smallest start index
C1_EarliestTerminatorWins ==
    (pc = "returned" /\ query_statement # <<>>) =>
        LET starts == TerminatorStarts(pre_buffer)
        IN  /\ starts # {}
            /\ \E i \in starts :
                  /\ \A j \in starts : i <= j
                  /\ query_statement = PrefixThrough(pre_buffer, i)

\* a later-listed terminator that starts before a ';' ended the statement
C1_Witness ==
    /\ pc = "returned"
    /\ pre_buffer = <<"c", "\\", "G", ";">>
    /\ query_statement = <<"c", "\\", "G">>

\* C2 as stated: a statement that begins with a disallowed keyword has illegal_query
\* set, whatever its terminator and the single-shot flag
C2_IllegalWhateverTerminator ==
    (pc = "constructed" /\ BeginsWithDisallowed(query_statement)) =>
        query_object.illegal_query

\* C2 amended: a statement that begins with a disallowed keyword has illegal_query set
\* unless it ends with \c or \C; then it is cancelled and illegal_query stays false
C2_IllegalUnlessCancelled ==
    (pc = "constructed" /\ BeginsWithDisallowed(query_statement)) =>
        IF EndsWithCancel(query_statement)
        THEN query_object.cancelled /\ ~query_object.illegal_query
        ELSE query_object.illegal_query

\* a mixed-case keyword after a blank, ended by \G, in a single-shot run
C2_Witness ==
    /\ pc = "constructed"
    /\ execute_query # <<>>
    /\ query_statement = <<" ", "S", "e", "t", "\\", "G">>
    /\ query_object.illegal_query

\* C3 as stated: no two of cancelled, illegal_query and bad_macro are true together
C3_FlagsMutuallyExclusive ==
    pc = "constructed" =>
        /\ ~(query_object.cancelled /\ query_object.illegal_query)
        /\ ~(query_object.cancelled /\ query_object.bad_macro)
        /\ ~(query_object.illegal_query /\ query_object.bad_macro)

\* C3 amended: cancelled is never true together with illegal_query or bad_macro
C3_CancelledExcludesOthers ==
    pc = "constructed" =>
        (query_object.cancelled => ~query_object.illegal_query /\ ~query_object.bad_macro)

\* a cancelled statement that begins with a disallowed keyword and holds a bad macro
C3_Witness ==
    /\ pc = "constructed"
    /\ query_object.cancelled
    /\ BeginsWithDisallowed(query_statement)
    /\ query_statement = <<"d","r","o","p","#","d","a","t","e","(","'","x","'",")","\\","c">>

\* the state the loop is in right after it handled query_statement
Handled == pc = "get_query" /\ query_statement # <<>>

\* C4: a statement ending in \c or \C is not submitted, prints nothing and causes no
\* dump_buffer; the buffer is the left-trimmed rest of the buffer it was cut from
C4_CancelKeepsRemainder ==
    (Handled /\ EndsWithCancel(query_statement)) =>
        /\ submitted = <<>>
        /\ output.kind = "none"
        /\ ~dumped
        /\ statement_buffer =
               LStrip(SubSeq(pre_buffer, Len(query_statement) + 1, Len(pre_buffer)))

\* a cancelled statement was handled and text typed after it is still pending
C4_Witness ==
    /\ Handled
    /\ EndsWithCancel(query_statement)
    /\ query_object.cancelled
    /\ statement_buffer = <<"d","r","o","p">>

\* C5: db.query is called only for a statement that is neither cancelled nor illegal
\* nor carrying a macro error; a statement beginning with a disallowed keyword, or
\* holding a date macro whose literal does not parse, is never submitted
C5_OnlyRunnableSubmitted ==
    /\ submitted # <<>> =>
          /\ ~query_object.cancelled
          /\ ~query_object.illegal_query
          /\ ~query_object.bad_macro
          /\ submitted = <<query_object.query_statement>>
    /\ (pc \in {"get_query", "exit"} /\ BeginsWithDisallowed(query_statement)) =>
          submitted = <<>>
    /\ (pc \in {"get_query", "exit"} /\
        \E p \in MacroOccurrences(query_statement) :
            get_actual_date(MacroLiteral(query_statement, p)) = <<>>) =>
          submitted = <<>>

\* the interactive loop submitted a statement to the database
C5_Witness ==
    /\ Handled
    /\ execute_query = <<>>
    /\ submitted # <<>>
    /\ output.kind = "result"

\* C6: after a statement whose handling failed the buffer is empty when the next
\* line is asked for, the loop goes on to the next get_query, and the loop is left
\* only by EOFError or KeyboardInterrupt
C6_FailureDiscardsAndContinues ==
    [][ /\ (pc' = "get_query" /\ output'.kind \in {"illegal", "bad_macro", "db_error"})
            => statement_buffer' = <<>>
        /\ (pc = "handle" /\ pc' # "get_query")
            => (pc' = "exit" /\ exit_reason' = "KeyboardInterrupt")
        /\ (pc \in {"get_query", "handle"} /\ pc' = "exit")
            => exit_reason' \in {"EOFError", "KeyboardInterrupt"} ]_vars

\* an illegal statement was reported and the text typed after it was discarded
C6_Witness ==
    /\ Handled
    /\ output.kind = "illegal"
    /\ dumped
    /\ LStrip(SubSeq(pre_buffer, Len(query_statement) + 1, Len(pre_buffer))) # <<>>
    /\ statement_buffer = <<>>

\* C7 as stated: when the macro rewriting fails the SqlQuery holds the text it was
\* constructed with, and bad_macro_string is the literal that did not parse
C7_FailedRewriteKeepsText ==
    /\ (pc = "constructed" /\ query_object.bad_macro) =>
          query_object.query_statement = query_statement
    /\ (pc = "rewriting" /\ rewritten # <<>>) =>
          (rewritten[1].bad_macro => rewritten[1].query_statement = query_statement)

\* C8: where date_macro_substitution succeeds its result holds no macro, and a second
\* run on that result changes nothing
C8_RewriteLeavesNoMacro ==
    (pc = "rewriting" /\ rewritten # <<>>) =>
        (~rewritten[1].bad_macro =>
            /\ MacroOccurrences(rewritten[1].query_statement) = {}
            /\ Len(rewritten) = 2 => rewritten[2] = rewritten[1])

\* two macros were rewritten and the rewriter has run again on the result
C8_Witness ==
    /\ pc = "rewriting"
    /\ Len(rewritten) = 2
    /\ Cardinality(MacroOccurrences(query_statement)) = 2
    /\ ~rewritten[1].bad_macro
    /\ rewritten[1].query_statement # query_statement

\* C9: for a statement that is not cancelled and holds no macro, without the
\* single-shot flag a final ';' is removed (bordered table), a final \g or \G is
\* removed (vertical), and any other text is kept (bordered table); with the flag the
\* view is tab-separated, a final ';' is removed and any other text is kept
C9_TerminatorDecidesMode ==
    (pc = "constructed" /\ ~EndsWithCancel(query_statement)
                        /\ MacroOccurrences(query_statement) = {}) =>
        LET n == Len(query_statement)
            semicolon == n >= 1 /\ query_statement[n] = ";"
            go == n >= 2 /\ query_statement[n - 1] = "\\" /\ query_statement[n] \in {"g", "G"}
        IN  IF execute_query = <<>>
            THEN IF semicolon
                 THEN /\ query_object.view_type = HORIZONTAL_TABLE
                      /\ query_object.query_statement = SubSeq(query_statement, 1, n - 1)
                 ELSE IF go
                 THEN /\ query_object.view_type = VERTICAL
                      /\ query_object.query_statement = SubSeq(query_statement, 1, n - 2)
                 ELSE /\ query_object.view_type = HORIZONTAL_TABLE
                      /\ query_object.query_statement = query_statement
            ELSE /\ query_object.view_type = HORIZONTAL_TABS
                 /\ query_object.query_statement =
                        IF semicolon THEN SubSeq(query_statement, 1, n - 1)
                        ELSE query_statement

\* a single-shot statement ending in \g keeps its text and is shown tab-separated
C9_Witness ==
    /\ pc = "constructed"
    /\ execute_query # <<>>
    /\ query_statement = <<"s","e","l","\\","g">>
    /\ query_object.query_statement = query_statement
    /\ query_object.view_type = HORIZONTAL_TABS

\* C10 as stated: whenever get_query has returned, the buffer is empty or ends with
\* exactly one space
C10_BufferEndsWithOneSpace ==
    pc = "returned" =>
        \/ statement_buffer = <<>>
        \/ /\ statement_buffer[Len(statement_buffer)] = " "
           /\ Len(statement_buffer) >= 2 =>
                  statement_buffer[Len(statement_buffer) - 1] \notin Whitespace


\* the four texts check_for_quit is meant to recognise
QuitSentinels ==
    { <<"q","u","i","t">>, <<"q","u","i","t",";">>,
      <<"e","x","i","t">>, <<"e","x","i","t",";">> }

\* buf is a quit sentinel, letter case aside
IsQuitSentinel(buf) ==
    \E w \in QuitSentinels :
        Len(buf) = Len(w) /\ \A i \in 1..Len(w) : LowerChar(buf[i]) = w[i]

\* C11 as stated: when the pending buffer is exactly a quit sentinel the next
\* get_query raises EOFError instead of searching it for a terminator, and no
\* statement handed to the loop body was cut from a buffer that was exactly a sentinel
C11_SentinelBufferRaisesFirst ==
    [][ /\ (pc = "get_query" /\ IsQuitSentinel(statement_buffer))
            => (pc' = "exit" /\ exit_reason' \in {"EOFError", "KeyboardInterrupt"})
        /\ pc' = "handle" => ~IsQuitSentinel(pre_buffer') ]_vars

\* C12 as stated: after a line is appended, EOFError is raised if and only if the
\* buffer, trimmed and case-folded, is a quit sentinel
C12_QuitIffTrimmedSentinel ==
    [][ (pc = "get_query" /\ TerminatorStarts(statement_buffer) = {}) =>
           /\ pc' = "get_query" => ~IsQuitSentinel(Strip(statement_buffer'))
           /\ pc' = "handle" => ~IsQuitSentinel(Strip(pre_buffer'))
           /\ (pc' = "exit" /\ exit_reason' = "EOFError"
                  /\ statement_buffer' # statement_buffer)
                => IsQuitSentinel(Strip(statement_buffer')) ]_vars


\* C13 as stated: whenever the program has exited, SimpleDB.cleanup has closed the
\* cursor and the connection, and where the interactive loop was left the history
\* file was written
C13_ResourcesReleasedOnExit ==
    pc = "exit" =>
        /\ ~db.connected
        /\ exit_reason \in {"EOFError", "KeyboardInterrupt"} => readline_history.written


\* the pieces of s between the occurrences of the character c
RECURSIVE Split(_, _)
Split(s, c) ==
    LET i == Find(s, <<c>>)
    IN  IF i < 0 THEN <<s>>
        ELSE <<Slice(s, 0, i)>> \o Split(Slice(s, i + 1, Len(s)), c)

\* the lines of a text
TextLines(text) == Split(text, "\n")

RowsInSet == <<" ","r","o","w","s"," ","i","n"," ","s","e","t">>

\* C14: for n > 0 rows the text of the bordered-table view and of the vertical view
\* ends with the line 'n rows in set' and an empty line, and the lines of the vertical
\* view that begin with stars are the separators of the rows 1..n in that order
C14_SummaryCountsRows ==
    (pc = "formatted" /\ results # <<>> /\ query_object.view_type # HORIZONTAL_TABS) =>
        LET n == Len(results)
            lines == TextLines(output.text)
            starred == SelectSeq(lines, LAMBDA l : l # <<>> /\ l[1] = "*")
        IN  /\ Len(lines) >= 3
            /\ lines[Len(lines)] = <<>>
            /\ lines[Len(lines) - 1] = <<>>
            /\ lines[Len(lines) - 2] = Decimal(n) \o RowsInSet
            /\ \A k \in 1..(Len(lines) - 3) : ~EndsWith(lines[k], RowsInSet)
            /\ query_object.view_type = VERTICAL =>
                  /\ Len(starred) = n
                  /\ \A k \in 1..n :
                        starred[k] = Repeat("*", 30) \o <<" ">> \o Decimal(k)
                                     \o <<"."," ","r","o","w"," ">> \o Repeat("*", 30)

\* two rows were shown as a bordered table under their header
C14_Witness ==
    /\ pc = "formatted"
    /\ query_object.view_type = HORIZONTAL_TABLE
    /\ Len(results) = 2
    /\ Len(TextLines(output.text)) = 9

\* C15: for no rows the bordered-table view and the vertical view return exactly
\* 'Empty set' followed by two newlines, and the tab-separated view returns ''
C15_EmptySetText ==
    (pc = "formatted" /\ results = <<>>) =>
        output.text = IF query_object.view_type = HORIZONTAL_TABS THEN <<>>
                      ELSE <<"E","m","p","t","y"," ","s","e","t","\n","\n">>

\* the bordered-table view has formatted a result set without rows
C15_Witness ==
    /\ pc = "formatted"
    /\ results = <<>>
    /\ query_object.view_type = HORIZONTAL_TABLE
    /\ output.text # <<>>

\* the text a cell is to be shown as
Shown(cell) ==
    IF cell.type \in {"NoneType", "NullType"} THEN <<"N","U","L","L">>
    ELSE IF cell.type = "int" THEN Decimal(cell.value)
    ELSE cell.value

\* the text the view shows for the cell in column j of row i: the j-th field of the
\* row's line in the horizontal views (the padding aside), the text after the label
\* in the vertical view
ShownAt(i, j) ==
    LET lines == TextLines(output.text)
    IN  IF query_object.view_type = HORIZONTAL_TABS
        THEN Split(lines[i], "\t")[j]
        ELSE IF query_object.view_type = HORIZONTAL_TABLE
        THEN Strip(Split(lines[3 + i], "|")[j + 1])
        ELSE LET line == lines[(i - 1) * (Len(header) + 1) + 1 + j]
             IN  Slice(line, Find(line, <<":"," ">>) + 2, Len(line))

\* C16: in each of the three views an absent cell is shown as NULL and every other
\* cell as its own text
C16_NoneShownAsNull ==
    (pc = "formatted" /\ results # <<>>) =>
        \A i \in 1..Len(results) : \A j \in 1..Len(header) :
            ShownAt(i, j) = Shown(results[i][j])

\* the vertical view has shown a row with an absent cell in its second column
C16_Witness ==
    /\ pc = "formatted"
    /\ query_object.view_type = VERTICAL
    /\ Len(header) = 2
    /\ Len(results) = 1
    /\ results[1][2].type = "NullType"
    /\ ShownAt(1, 2) = <<"N","U","L","L">>


\* C17 as stated: query returns at most max_fetchsize rows, and it calls fetchmany
\* only while fewer than max_fetchsize rows have been fetched
C17_AtMostMaxFetchsizeRows ==
    /\ pc = "returned" => Len(results) <= db.max_fetchsize
    /\ pc = "fetch" => Len(results) < db.max_fetchsize


\* C18 as stated: whenever get_query appends a line it has read to a non-empty
\* buffer, that buffer ends with a whitespace character
C18_LineAppendedAfterWhitespace ==
    [][ (pc \in {"constructed", "ready", "dumped"} /\ statement_buffer # <<>>
             /\ prompt' # <<>> /\ pc' = "returned")
          => statement_buffer[Len(statement_buffer)] \in Whitespace ]_vars

\* C19 as stated: when the buffer holds no terminator and get_query returns a
\* statement, the line it has just read holds a terminator by itself
C19_NoTerminatorAcrossLines ==
    [][ (pc \in {"constructed", "ready", "dumped"}
             /\ TerminatorStarts(statement_buffer) = {}
             /\ pc' = "returned" /\ query_statement' # <<>>)
          => TerminatorStarts(SubSeq(pre_buffer', Len(statement_buffer) + 1,
                                     Len(pre_buffer'))) # {} ]_vars


\* the prefix of buf through its leftmost terminator
LeftmostStatement(buf) ==
    LET starts == TerminatorStarts(buf)
    IN  PrefixThrough(buf, CHOOSE i \in starts : \A j \in starts : i <= j)

\* what a get_query of the loop does while the buffer holds a terminator: no line is
\* asked for, and the leftmost statement alone goes to the loop body, the trimmed
\* rest staying buffered
BufferedStatementFirst ==
    (pc = "get_query" /\ exit_reason' # "KeyboardInterrupt"
         /\ TerminatorStarts(statement_buffer) # {}) =>
        /\ prompt' = <<>>
        /\ pc' = "handle"
        /\ query_statement' = LeftmostStatement(statement_buffer)
        /\ statement_buffer' = LStrip(SubSeq(statement_buffer, Len(query_statement') + 1,
                                             Len(statement_buffer)))

\* C20 as stated: a line is asked for only when the buffer holds no terminator, each
\* get_query hands over the leftmost buffered statement alone, and handling a
\* statement leaves the statements buffered behind it in place, to be handled next
C20_BufferedStatementsAllHandled ==
    [][ /\ BufferedStatementFirst
        /\ (pc = "handle" /\ pc' = "get_query" /\ TerminatorStarts(statement_buffer) # {})
              => statement_buffer' = statement_buffer ]_vars

\* C20 amended: as stated, except that a statement whose handling fails takes the
\* whole buffer with it, complete statements included
C20_BufferedStatementsHandledOrDiscarded ==
    [][ /\ BufferedStatementFirst
        /\ (pc = "handle" /\ pc' = "get_query" /\ TerminatorStarts(statement_buffer) # {}) =>
              statement_buffer' =
                  IF output'.kind \in {"illegal", "bad_macro", "db_error"} THEN <<>>
                  ELSE statement_buffer ]_vars

\* the second statement of a line was handed over without a line being asked for,
\* and it was handled
C20_Witness ==
    /\ Handled
    /\ prompt = <<>>
    /\ pre_buffer = <<"\\", "c">>
    /\ query_object.cancelled

\* C21 as stated: for a statement classified as illegal the view type is the default
\* bordered table and the text still ends with the terminator it was given with; where
\* it holds no macro the text is the one given
C21_IllegalSkipsModeStep ==
    (pc = "constructed" /\ query_object.illegal_query) =>
        /\ query_object.view_type = HORIZONTAL_TABLE
        /\ \A k \in 1..Len(statement_terminators) :
               EndsWith(query_statement, statement_terminators[k]) =>
                   EndsWith(query_object.query_statement, statement_terminators[k])
        /\ MacroOccurrences(query_statement) = {} =>
               query_object.query_statement = query_statement

\* C21: for a statement classified as illegal the terminator-driven step runs as for
\* any other statement that is not cancelled: with the single-shot flag the view is
\* tab-separated and a final ';' is removed; without it a final \g or \G gives the
\* vertical view and is removed, a final ';' is removed (bordered table), and only a
\* statement with no such ending keeps the default view and its text; a statement
\* with macros loses the same ending from its text as the macro rewriting left it
C21_IllegalStillStripped ==
    (pc = "constructed" /\ query_object.illegal_query) =>
        LET n == Len(query_statement)
            semicolon == EndsWith(query_statement, <<";">>)
            go == EndsWith(query_statement, <<"\\","g">>)
                  \/ EndsWith(query_statement, <<"\\","G">>)
            removed == IF semicolon THEN 1 ELSE IF execute_query = <<>> /\ go THEN 2 ELSE 0
        IN  /\ query_object.view_type =
                   IF execute_query # <<>> THEN HORIZONTAL_TABS
                   ELSE IF go THEN VERTICAL ELSE HORIZONTAL_TABLE
            /\ MacroOccurrences(query_statement) = {} =>
                   query_object.query_statement = SubSeq(query_statement, 1, n - removed)
            /\ LET text == date_macro_substitution(new_query(query_statement)).query_statement
               IN  query_object.query_statement = SubSeq(text, 1, Len(text) - removed)

\* an illegal statement given with \g at the prompt has lost the \g and is vertical
C21_Witness ==
    /\ pc = "constructed"
    /\ execute_query = <<>>
    /\ query_statement = <<"d","r","o","p","\\","g">>
    /\ query_object.illegal_query
    /\ query_object.view_type = VERTICAL
    /\ query_object.query_statement = <<"d","r","o","p">>

\* C22: after get_statement_from_buffer on a buffer that holds a terminator, the
\* statement returned is a beginning of that buffer, the buffer left behind is its end
\* and does not begin with whitespace, and everything between the two is whitespace;
\* on a buffer that holds no terminator nothing is returned and the buffer is as before
C22_ExtractionKeepsText ==
    pc = "extracted" =>
        IF TerminatorStarts(pre_buffer) # {}
        THEN LET n == Len(pre_buffer)
                 taken == Len(query_statement)
                 left == Len(statement_buffer)
             IN  /\ taken > 0
                 /\ taken + left <= n
                 /\ SubSeq(pre_buffer, 1, taken) = query_statement
                 /\ SubSeq(pre_buffer, n - left + 1, n) = statement_buffer
                 /\ \A i \in (taken + 1)..(n - left) : pre_buffer[i] \in Whitespace
                 /\ left > 0 => statement_buffer[1] \notin Whitespace
        ELSE /\ query_statement = <<>>
             /\ statement_buffer = pre_buffer

\* a statement was cut off, whitespace after it was dropped, and text that itself ends
\* with whitespace stays in the buffer
C22_Witness ==
    /\ pc = "extracted"
    /\ query_statement # <<>>
    /\ statement_buffer # <<>>
    /\ Len(query_statement) + Len(statement_buffer) < Len(pre_buffer)
    /\ statement_buffer[Len(statement_buffer)] \in Whitespace

\* C23: a buffer that is not empty holds a character that is not whitespace, and
\* whenever get_query calls raw_input its prompt is the continuation prompt if the
\* buffer it is called on is not empty and the fresh prompt if that buffer is empty
C23_PromptFollowsBuffer ==
    /\ [](statement_buffer # <<>> =>
              \E i \in 1..Len(statement_buffer) : statement_buffer[i] \notin Whitespace)
    /\ [][(pc' \in {"returned", "raised"} /\ prompt' # <<>>) =>
              /\ Len(prompt') = 1
              /\ prompt'[1] = multiline_prompt <=> statement_buffer # <<>>
              /\ prompt'[1] = empty_buffer_prompt <=> statement_buffer = <<>>]_vars

\* a line was read at the fresh prompt, no statement came of it and the buffer is
\* empty again, so the line was empty or all whitespace
C23_Witness ==
    /\ pc = "returned"
    /\ prompt = <<empty_buffer_prompt>>
    /\ query_statement = <<>>
    /\ statement_buffer = <<>>

====
